---- MODULE Spec2Model ----
(***************************************************************************)
(* The live-mode driver of soooounds: the useAudioAnalyzer hook (capture   *)
(* acquisition, the requestAnimationFrame analysis loop, stopListening),   *)
(* the App component (image upload, the live-mode toggle, the real-time    *)
(* transformation effect with its 8 s gate) and transformImageWithAI (the  *)
(* backend request with its local fallback).                               *)
(*                                                                         *)
(* React is modelled at the granularity of one event: a handler's state    *)
(* updates are batched, the component re-renders, and the effect of        *)
(* App.tsx:49-105 runs when one of its dependencies changed, all before    *)
(* the next event is handled.  Awaited promises, timers, image load events *)
(* and animation frames are separate events.                               *)
(***************************************************************************)
EXTENDS Integers, Sequences, FiniteSets, TLC

\* ------------------------------------------------------------------ bounds
MaxCalls == 2        \* transforms counted in one run
MaxLoops == 2        \* analysis loops alive or being acquired at one time
FreeBins == 6        \* bins of a spectrum that vary one by one

\* ------------------------------------------------------- program constants
Cooldown == 8000     \* App.tsx:53

\* Date.now() when the page loads: any value far above Cooldown.
Epoch == 100 * Cooldown

\* The instants the clock is observed at, as offsets from Epoch.
Offsets == {0, Cooldown - 1, Cooldown, Cooldown + 1}

Instants == {Epoch + d : d \in Offsets}

NoTime == 0 - 1

\* Files the user can pick.
Files == {"imgA", "imgB"}

NoImage == [kind |-> "null", src |-> "null"]

Undefined == [kind |-> "undefined", src |-> "null"]

Upload(f) == [kind |-> "upload", src |-> f]

\* What the backend request can come to.
BackendFailures == {"networkError", "httpError", "successFalse", "malformedBody"}

BackendOutcomes == BackendFailures \cup {"ok", "noImageData"}

\* -------------------------------------------------------------- audio data
FftSize == 2048                 \* useAudioAnalyzer.ts:126

InitialFrequencyLength == 256   \* useAudioAnalyzer.ts:16

InitialWaveformLength == 1024   \* useAudioAnalyzer.ts:17

\* Every array of the model has 1/64 of the length it has in the code.
Shrink == 2 ^ 6

\* analyzer.frequencyBinCount (useAudioAnalyzer.ts:38): half the FFT size.
frequencyBinCount == (FftSize \div 2) \div Shrink

\* The value getFloatFrequencyData gives for a bin with no energy: it is
\* below every other value.
NegInfinity == 0 - 10 ^ 6

\* The dB values of a bin: none, 0 dB, 20 dB (magnitudes 0, 1 and 10, which
\* floating point holds and adds exactly).
Decibels == {NegInfinity, 0, 20}

\* Time-domain samples, in hundredths of full scale.
Amplitudes == {0 - 100, 0, 1, 5}

\* new Float32Array(n): n zeros.
Float32Array(n) == [i \in 1 .. n |-> 0]

\* The spectra getFloatFrequencyData can write into frequencyData: any
\* values in the first FreeBins bins, one value in all the bins above.
Spectra ==
  {[i \in 1 .. frequencyBinCount |-> IF i <= FreeBins THEN low[i] ELSE high] :
     low \in [1 .. FreeBins -> Decibels], high \in Decibels}

\* The windows getFloatTimeDomainData can write into waveformData: the
\* first k samples at amplitude a, the rest at rest.
Windows ==
  {[i \in 1 .. frequencyBinCount |-> IF i <= k THEN a ELSE 0] :
     a \in Amplitudes, k \in {0, 1, frequencyBinCount}}

\* A real number n/d, d > 0.
Frac(n, d) == [n |-> n, d |-> d]

FracLeq(a, b) == a.n * b.d <= b.n * a.d

FracEq(a, b) == a.n * b.d = b.n * a.d

FracLess(a, b) == a.n * b.d < b.n * a.d

RECURSIVE Gcd(_, _)
Gcd(a, b) == IF b = 0 THEN a ELSE Gcd(b, a % b)

Abs(x) == IF x < 0 THEN 0 - x ELSE x

\* n/d in lowest terms.
Reduced(n, d) ==
  LET g == Gcd(Abs(n), d) IN Frac(n \div g, d \div g)

FracAdd(a, b) == Reduced(a.n * b.d + b.n * a.d, a.d * b.d)

FracSub(a, b) == Reduced(a.n * b.d - b.n * a.d, a.d * b.d)

FracMul(a, b) == Reduced(a.n * b.n, a.d * b.d)

\* a % m for a >= 0 and an integer m > 0.
FracMod(a, m) == Reduced(a.n % (m * a.d), a.d)

\* Math.pow(10, dB / 20) (useAudioAnalyzer.ts:57, 66, 72).
Magnitude(dB) ==
  IF dB = NegInfinity THEN 0 ELSE 10 ^ (dB \div 20)

\* The loop of useAudioAnalyzer.ts:47-50, from sample i on: the sum of the
\* squares, in 1/10000.
RECURSIVE SumSquares(_, _)
SumSquares(waveformData, i) ==
  IF i > Len(waveformData) THEN 0
  ELSE waveformData[i] * waveformData[i] + SumSquares(waveformData, i + 1)

\* The integer part of the square root of x, lo <= sqrt(x) < hi.
RECURSIVE SqrtBetween(_, _, _)
SqrtBetween(x, lo, hi) ==
  IF hi - lo <= 1 THEN lo
  ELSE LET mid == (lo + hi) \div 2
       IN IF mid * mid <= x THEN SqrtBetween(x, mid, hi)
                            ELSE SqrtBetween(x, lo, mid)

\* volume * 10, in thousandths (useAudioAnalyzer.ts:51, 89): samples are in
\* hundredths, so 1000 * 10 * sqrt(sum / length) is sqrt(10^4 * sum / length),
\* which is 10^4 at most.
VolumeTimesTen(waveformData) ==
  SqrtBetween((10 ^ 4 * SumSquares(waveformData, 1)) \div Len(waveformData),
              0, 10 ^ 4 + 1)

\* finalVolume without its clamp.
FinalVolumeUnclamped(v) ==
  v

\* Math.max(0, Math.min(1, volume * 10)) (useAudioAnalyzer.ts:89), in
\* thousandths.
FinalVolume(v) ==
  IF v > 1000 THEN 1000 ELSE IF v < 0 THEN 0 ELSE v

\* The loop of useAudioAnalyzer.ts:56-60 and 65-67, from position i on
\* (position i holds bin i - 1): the sum of the magnitudes.
RECURSIVE MagnitudeSum(_, _)
MagnitudeSum(frequencyData, i) ==
  IF i > Len(frequencyData) THEN 0
  ELSE Magnitude(frequencyData[i]) + MagnitudeSum(frequencyData, i + 1)

\* The same loop: the sum of the magnitudes weighted by their bin index.
RECURSIVE WeightedSum(_, _)
WeightedSum(frequencyData, i) ==
  IF i > Len(frequencyData) THEN 0
  ELSE Magnitude(frequencyData[i]) * (i - 1) + WeightedSum(frequencyData, i + 1)

\* The quotient taken whatever the sum is: 0/0 is NaN, written 0/0 here.
CentroidUnguarded(frequencyData) ==
  Frac(WeightedSum(frequencyData, 1), MagnitudeSum(frequencyData, 1))

\* useAudioAnalyzer.ts:61: the mean bin index, 0 when there is no magnitude.
Centroid(frequencyData) ==
  IF MagnitudeSum(frequencyData, 1) > 0
  THEN Frac(WeightedSum(frequencyData, 1), MagnitudeSum(frequencyData, 1))
  ELSE Frac(0, 1)

\* A rolloff at half of the energy.
RolloffReachedAtHalf(currentEnergy, energySum) ==
  2 * currentEnergy >= energySum

\* useAudioAnalyzer.ts:68, 73: currentEnergy >= energySum * 0.9.
RolloffReached(currentEnergy, energySum) ==
  10 * currentEnergy >= 9 * energySum

\* The loop of useAudioAnalyzer.ts:69-77 from position i on: the first bin
\* at which the running sum reaches the target, 0 if none does.
RECURSIVE RolloffLoop(_, _, _, _)
RolloffLoop(frequencyData, i, currentEnergy, energySum) ==
  IF i > Len(frequencyData) THEN 0
  ELSE LET c == currentEnergy + Magnitude(frequencyData[i])
       IN IF RolloffReached(c, energySum) THEN i - 1
          ELSE RolloffLoop(frequencyData, i + 1, c, energySum)

\* A pitch loop that runs up to and including bin length / 4.
InPitchRangeInclusive(i, length) ==
  4 * i <= length

\* useAudioAnalyzer.ts:82: i < frequencyData.length / 4.
InPitchRange(i, length) ==
  4 * i < length

\* The loop of useAudioAnalyzer.ts:80-87 from bin i on.
RECURSIVE PitchLoop(_, _, _, _)
PitchLoop(frequencyData, i, maxMagnitude, pitch) ==
  IF ~InPitchRange(i, Len(frequencyData)) THEN pitch
  ELSE IF frequencyData[i + 1] > maxMagnitude
       THEN PitchLoop(frequencyData, i + 1, frequencyData[i + 1], i)
       ELSE PitchLoop(frequencyData, i + 1, maxMagnitude, pitch)

\* The object analyze passes to setAudioFeatures (useAudioAnalyzer.ts:
\* 96-104) after reading frequencyData and waveformData.  frequency and
\* waveform are the two arrays themselves, given here by their contents.
AnalyzeWindow(frequencyData, waveformData) ==
  LET energySum == MagnitudeSum(frequencyData, 1)
      centroid == Centroid(frequencyData)
      rolloff == RolloffLoop(frequencyData, 1, 0, energySum)
  IN [volume    |-> Frac(FinalVolume(VolumeTimesTen(waveformData)), 1000),
      frequency |-> frequencyData,
      waveform  |-> waveformData,
      pitch     |-> PitchLoop(frequencyData, 1, NegInfinity, 0),
      centroid  |-> Frac(centroid.n, centroid.d * Len(frequencyData)),
      rolloff   |-> Frac(rolloff, Len(frequencyData)),
      energy    |-> energySum]

\* The initial state of the hook (useAudioAnalyzer.ts:14-22).
InitialAudioFeatures ==
  [volume    |-> Frac(0, 1),
   frequency |-> Float32Array(InitialFrequencyLength \div Shrink),
   waveform  |-> Float32Array(InitialWaveformLength \div Shrink),
   pitch     |-> 0,
   centroid  |-> Frac(0, 1),
   rolloff   |-> Frac(0, 1),
   energy    |-> 0]

\* ------------------------------------------------- features to parameters
\* The hue shift without its wrap.
HueShiftUnwrapped(centroid) ==
  FracMul(centroid, Frac(360, 1))

\* (centroid * 360) % 360 (aiImageTransform.ts:621, 718).
HueShift(centroid) ==
  FracMod(FracMul(centroid, Frac(360, 1)), 360)

\* The options simulateTransformation passes to applyWebGLColorTransform
\* (aiImageTransform.ts:618-626); the seed is left out.
BurstOptions(features) ==
  [hueShift   |-> HueShift(features.centroid),
   saturation |-> FracAdd(Frac(1, 1), FracMul(features.volume, Frac(12, 10))),
   brightness |-> FracAdd(Frac(1, 1),
                          FracMul(FracSub(features.volume, Frac(5, 10)),
                                  Frac(6, 10))),
   noise      |-> IF FracLess(Frac(4, 10), features.volume)
                  THEN FracMul(features.volume, Frac(1, 10))
                  ELSE Frac(0, 1)]

\* The options RealtimeTransformer's transform passes
\* (aiImageTransform.ts:715-723).
ContinuousOptions(features) ==
  [hueShift   |-> HueShift(features.centroid),
   saturation |-> FracAdd(Frac(1, 1), FracMul(features.volume, Frac(8, 10))),
   brightness |-> FracAdd(Frac(1, 1),
                          FracMul(FracSub(features.volume, Frac(5, 10)),
                                  Frac(4, 10))),
   noise      |-> IF features.energy > 50
                  THEN FracMul(features.volume, Frac(1, 10))
                  ELSE Frac(0, 1)]

\* Valid audio features on a grid: volume and centroid in [0, 1] with the
\* ends and the thresholds of the mappings, energy from 0 up.
ValidAudioFeatures ==
  {[InitialAudioFeatures EXCEPT !.volume = Frac(v, 1000),
                                !.centroid = Frac(c, 1000),
                                !.energy = e] :
     v \in {0, 400, 401, 500, 1000},
     c \in {0, 500, 999, 1000},
     e \in {0, 50, 51, 200}}

\* ------------------------------------------------------ colour conversion
\* The values of a channel of a pixel the conversions are run on.
Channels == {0, 1, 51, 128, 204, 254, 255}

Pixels == Channels \X Channels \X Channels

Max3(a, b, c) ==
  IF a >= b /\ a >= c THEN a ELSE IF b >= c THEN b ELSE c

Min3(a, b, c) ==
  IF a <= b /\ a <= c THEN a ELSE IF b <= c THEN b ELSE c

\* The saturation computed by the formula of the dark half whatever l is.
SaturationOfDark(max, min) ==
  Reduced(max - min, max + min)

\* aiImageTransform.ts:259, max and min in 1/255:
\* l > 0.5 ? d / (2 - max - min) : d / (max + min).
Saturation(max, min) ==
  IF max + min > 255
  THEN Reduced(max - min, 2 * 255 - max - min)
  ELSE Reduced(max - min, max + min)

\* rgbToHsl (aiImageTransform.ts:246-271; rgb2hsl of the fragment shader,
\* webglTransforms.ts:36-55, is the same computation on channels in [0, 1]).
rgbToHsl(rgb) ==
  LET r == rgb[1]
      g == rgb[2]
      b == rgb[3]
      max == Max3(r, g, b)
      min == Min3(r, g, b)
      d == max - min
      l == Reduced(max + min, 2 * 255)
      h6 == IF max = r
            THEN FracAdd(Reduced(g - b, d), Frac(IF g < b THEN 6 ELSE 0, 1))
            ELSE IF max = g
                 THEN FracAdd(Reduced(b - r, d), Frac(2, 1))
                 ELSE FracAdd(Reduced(r - g, d), Frac(4, 1))
  IN IF max = min
     THEN <<Frac(0, 1), Frac(0, 1), l>>
     ELSE <<FracMul(h6, Frac(1, 6)), Saturation(max, min), l>>

\* hue2rgb (aiImageTransform.ts:279-286).
hue2rgb(p, q, t0) ==
  LET t1 == IF FracLess(t0, Frac(0, 1)) THEN FracAdd(t0, Frac(1, 1)) ELSE t0
      t == IF FracLess(Frac(1, 1), t1) THEN FracSub(t1, Frac(1, 1)) ELSE t1
  IN IF FracLess(t, Frac(1, 6))
     THEN FracAdd(p, FracMul(FracSub(q, p), FracMul(Frac(6, 1), t)))
     ELSE IF FracLess(t, Frac(1, 2))
          THEN q
          ELSE IF FracLess(t, Frac(2, 3))
               THEN FracAdd(p, FracMul(FracSub(q, p),
                                       FracMul(FracSub(Frac(2, 3), t),
                                               Frac(6, 1))))
               ELSE p

\* Math.round(x * 255) (aiImageTransform.ts:296).
RoundTo255(x) ==
  (2 * 255 * x.n + x.d) \div (2 * x.d)

\* hslToRgb (aiImageTransform.ts:273-297; hsl2rgb of the fragment shader,
\* webglTransforms.ts:66-81, followed by the write to an 8-bit canvas).
hslToRgb(h, s, l) ==
  IF s.n = 0
  THEN <<RoundTo255(l), RoundTo255(l), RoundTo255(l)>>
  ELSE LET q == IF FracLess(l, Frac(1, 2))
                THEN FracMul(l, FracAdd(Frac(1, 1), s))
                ELSE FracSub(FracAdd(l, s), FracMul(l, s))
           p == FracSub(FracMul(Frac(2, 1), l), q)
       IN <<RoundTo255(hue2rgb(p, q, FracAdd(h, Frac(1, 3)))),
            RoundTo255(hue2rgb(p, q, h)),
            RoundTo255(hue2rgb(p, q, FracSub(h, Frac(1, 3))))>>

FracMin(a, b) == IF FracLess(b, a) THEN b ELSE a

FracMax(a, b) == IF FracLess(a, b) THEN b ELSE a

\* The colour shift of one pixel (aiImageTransform.ts:174-179; main of the
\* fragment shader, webglTransforms.ts:88-96, with no noise): to HSL, the
\* hue shifted, saturation and lightness scaled and clamped, back to RGB.
ShiftColour(rgb, hueShift, saturationBoost, brightnessAdjust) ==
  LET hsl == rgbToHsl(rgb)
      newH == FracMod(FracAdd(hsl[1], FracMul(hueShift, Frac(1, 360))), 1)
      newS == FracMin(Frac(1, 1), FracMul(hsl[2], saturationBoost))
      newL == FracMax(Frac(0, 1),
                      FracMin(Frac(1, 1), FracMul(hsl[3], brightnessAdjust)))
  IN hslToRgb(newH, newS, newL)

\* ---------------------------------------------------- colour transform
\* The runs of the colour transform that are recorded.
MaxRenders == 2

\* hsl2rgb of the fragment shader (webglTransforms.ts:66-81): the channels
\* in [0, 1], not rounded.
hsl2rgb(h, s, l) ==
  IF s.n = 0
  THEN <<l, l, l>>
  ELSE LET q == IF FracLess(l, Frac(1, 2))
                THEN FracMul(l, FracAdd(Frac(1, 1), s))
                ELSE FracSub(FracAdd(l, s), FracMul(l, s))
           p == FracSub(FracMul(Frac(2, 1), l), q)
       IN <<hue2rgb(p, q, FracAdd(h, Frac(1, 3))),
            hue2rgb(p, q, h),
            hue2rgb(p, q, FracSub(h, Frac(1, 3)))>>

\* sin(x) for x in thousandths of a radian, in thousandths, by Bhaskara's
\* formula 16 a (pi - a) / (5 pi^2 - 4 a (pi - a)) on each half period.
SinMilli(x) ==
  LET t == x % 6283
      a == IF t > 3141 THEN t - 3141 ELSE t
      pp == (a * (3141 - a)) \div 100
      half == (4 * pp * 1000) \div ((5 * 98657 - 4 * pp) \div 4)
  IN IF t > 3141 THEN 0 - half ELSE half

\* rand of the fragment shader (webglTransforms.ts:83-85):
\* fract(sin(dot(co, vec2(12.9898, 78.233)) + u_seed) * 43758.5453), with
\* co in thousandths and the seed in hundredths; the result in 1/10000.
\* It reads nothing but its argument and the uniform.
rand(co, seed) ==
  LET dot == (129898 * co[1] + 782330 * co[2]) \div 10000
      s == SinMilli(dot + 10 * seed)
  IN Frac((s * 437585) % 10000, 10000)

\* clamp(x, 0.0, 1.0).
Clamp01(x) ==
  IF FracLess(x, Frac(0, 1)) THEN Frac(0, 1)
  ELSE IF FracLess(Frac(1, 1), x) THEN Frac(1, 1) ELSE x

\* main of the fragment shader (webglTransforms.ts:87-97) for the pixel at
\* co, and the write of gl_FragColor to the 8-bit canvas.  u_hueShift is
\* options.hueShift / 360 (webglTransforms.ts:159).
FragmentShader(rgb, co, options, seed) ==
  LET hsl == rgbToHsl(rgb)
      h == FracMod(FracAdd(hsl[1], FracMul(options.hueShift, Frac(1, 360))), 1)
      sat == Clamp01(FracMul(hsl[2], options.saturation))
      l == Clamp01(FracMul(hsl[3], options.brightness))
      out == hsl2rgb(h, sat, l)
      noise == FracMul(FracSub(rand(co, seed), Frac(1, 2)), options.noise)
  IN [k \in 1 .. 3 |-> RoundTo255(Clamp01(FracAdd(out[k], noise)))]

\* The values Math.random() returns here: any of these.
MathRandom == {Frac(0, 1), Frac(1, 50), Frac(1, 2), Frac(49, 50)}

\* The store of a number into a Uint8ClampedArray: clamped to [0, 255] and
\* rounded to the nearest integer, halves to the even one.
ToUint8Clamped(x) ==
  LET fl == x.n \div x.d
      twice == 2 * (x.n - fl * x.d)
  IN IF x.n < 0 THEN 0
     ELSE IF fl >= 255 THEN 255
     ELSE IF twice < x.d THEN fl
     ELSE IF twice > x.d THEN fl + 1
     ELSE IF fl % 2 = 0 THEN fl ELSE fl + 1

\* The body of the pixel loop of the canvas version of simulateTransformation
\* (aiImageTransform.ts:168-192): the colour shift, then with
\* volume > 0.4 and a first draw below volume * 0.05 a noise of
\* (second draw - 0.5) * volume * 50 on the three channels.
PixelLoopBody(rgb, features, draw1, draw2) ==
  LET volume == features.volume
      shifted ==
        ShiftColour(rgb, HueShift(features.centroid),
                    FracAdd(Frac(1, 1), FracMul(volume, Frac(12, 10))),
                    FracAdd(Frac(1, 1),
                            FracMul(FracSub(volume, Frac(5, 10)),
                                    Frac(6, 10))))
      noise == FracMul(FracMul(FracSub(draw2, Frac(1, 2)), volume),
                       Frac(50, 1))
  IN IF FracLess(Frac(4, 10), volume)
        /\ FracLess(draw1, FracMul(volume, Frac(5, 100)))
     THEN [k \in 1 .. 3 |->
             ToUint8Clamped(FracAdd(Frac(shifted[k], 1), noise))]
     ELSE shifted

\* What the colour transform is run on: a pixel, where it is in the image
\* (texture coordinates in thousandths), the features the parameters are
\* mapped from, and a seed in hundredths.
RenderPixels == {<<0, 0, 0>>, <<255, 0, 0>>, <<51, 128, 204>>}

TexCoords == {<<250, 250>>, <<750, 250>>}

RenderFeatures ==
  {[InitialAudioFeatures EXCEPT !.volume = Frac(v, 10),
                                !.centroid = Frac(c, 10)] :
     v \in {0, 5, 10}, c \in {0, 5}}

Seeds == {0, 42}

\* The canvas version takes no seed.
NoSeed == 0 - 1

\* ------------------------------------------------------------------ masks
\* A call on the 2D context of the mask canvas: fillRect(x, y, w, h), or an
\* arc at (x, y) of radius w filled, or the fillRect of the whole canvas
\* with a radial gradient from white at (x, y) to black at distance w.
\* style is 0 for black and 1 for white.
FillRect(left, top, wide, high, fillStyle) ==
  [shape |-> "rect", x |-> left, y |-> top, w |-> wide, h |-> high,
   style |-> fillStyle]

FillArc(cx, cy, r, fillStyle) ==
  [shape |-> "arc", x |-> cx, y |-> cy, w |-> r, h |-> r,
   style |-> fillStyle]

FillGradient(cx, cy, r) ==
  [shape |-> "gradient", x |-> cx, y |-> cy, w |-> r, h |-> r, style |-> 1]

Whole(n) == Frac(n, 1)

Min2(a, b) == IF a <= b THEN a ELSE b

\* Math.floor of a number that is not negative.
Floor(x) == x.n \div x.d

\* The modes a mask is asked for (aiImageTransform.ts:480): 'psychedelic',
\* 'minimal', and one of the others.
MaskModes == {"psychedelic", "minimal", "realtime"}

\* The dimensions of the image the server makes the mask for: what
\* resize(512, 512, {fit: 'inside'}) leaves (part_001:107-125).
MaskSizes == {<<512, 512>>, <<512, 256>>, <<4, 3>>}

\* The audio features a mask is made from.
MaskFeatures ==
  [volume : {Whole(0), Frac(1, 2), Whole(1)},
   centroid : {Frac(1, 2)},
   energy : {Whole(0), Frac(1, 5)},
   pitch : {0, 60}]

\* The values Math.random() returns while a mask is drawn: any of these.
MaskDraws == {Whole(0), Frac(1, 2)}

\* The four corner squares of side size (part_001:353-356,
\* openaiService.ts:243-246).
CornerSquares(width, height, size) ==
  <<FillRect(Whole(0), Whole(0), size, size, 1),
    FillRect(FracSub(Whole(width), size), Whole(0), size, size, 1),
    FillRect(Whole(0), FracSub(Whole(height), size), size, size, 1),
    FillRect(FracSub(Whole(width), size), FracSub(Whole(height), size),
             size, size, 1)>>

\* Math.max(200, Math.min(width, height) * volume * 0.8) (part_001:352).
ServerCornerSize(width, height, volume) ==
  FracMax(Whole(200),
          FracMul(FracMul(Whole(Min2(width, height)), volume), Frac(8, 10)))

\* 512 * volume * 0.3 (openaiService.ts:242).
ClientCornerSize(volume) ==
  FracMul(FracMul(Whole(512), volume), Frac(3, 10))

\* (Math.cos(angle), Math.sin(angle)) for angle = (i / n) * 2 pi, n = 2 or
\* 4; the sine of pi is taken as 0.
UnitVector(i, n) ==
  LET quarter == (4 * i) \div n
  IN CASE quarter = 0 -> <<1, 0>>
       [] quarter = 1 -> <<0, 1>>
       [] quarter = 2 -> <<0 - 1, 0>>
       [] OTHER -> <<0, 0 - 1>>

\* The strategic mask of the server (part_001:357-395): a disc in the
\* centre, numPatterns discs around it placed with two draws each, and
\* with pitch > 50 the horizontal bars.
StrategicMask(features, width, height, draws) ==
  LET transformCoverage == FracMax(Frac(3, 10),
                                   FracMul(features.volume, Frac(8, 10)))
      numPatterns == IF Floor(FracMul(features.energy, Whole(20))) > 2
                     THEN Floor(FracMul(features.energy, Whole(20))) ELSE 2
      centerX == Frac(width, 2)
      centerY == Frac(height, 2)
      baseRadius == FracMul(FracMul(Whole(Min2(width, height)),
                                    transformCoverage), Frac(4, 10))
      disc(i) ==
        LET u == UnitVector(i, numPatterns)
            distance == FracMul(baseRadius,
                                FracAdd(Frac(1, 2),
                                        FracMul(draws[2 * i + 1], Frac(1, 2))))
            radius == FracMul(baseRadius,
                              FracAdd(Frac(2, 10),
                                      FracMul(draws[2 * i + 2], Frac(3, 10))))
        IN FillArc(FracAdd(centerX, FracMul(Whole(u[1]), distance)),
                   FracAdd(centerY, FracMul(Whole(u[2]), distance)),
                   radius, 1)
      numLines == IF features.pitch > 50
                  THEN Min2(5, features.pitch \div 30) ELSE 0
      lineWidth == FracMul(FracMul(Whole(width), transformCoverage),
                           Frac(3, 10))
      bar(i) ==
        FillRect(FracMul(FracSub(Whole(width), lineWidth), Frac(1, 2)),
                 FracSub(FracMul(Frac(height, numLines + 1), Whole(i + 1)),
                         Whole(10)),
                 lineWidth, Whole(20), 1)
  IN <<FillArc(centerX, centerY, baseRadius, 1)>>
     \o [k \in 1 .. numPatterns |-> disc(k - 1)]
     \o [k \in 1 .. numLines |-> bar(k - 1)]

\* The number of draws of Math.random() the strategic mask makes.
StrategicDraws(features) ==
  2 * (IF Floor(FracMul(features.energy, Whole(20))) > 2
       THEN Floor(FracMul(features.energy, Whole(20))) ELSE 2)

\* createAudioMask with no branch of its own for 'psychedelic'.
createAudioMaskNoFullBranch(features, mode, width, height, draws) ==
  <<FillRect(Whole(0), Whole(0), Whole(width), Whole(height), 0)>>
  \o (IF mode = "minimal"
      THEN CornerSquares(width, height,
                         ServerCornerSize(width, height, features.volume))
      ELSE StrategicMask(features, width, height, draws))

\* The calls createAudioMask makes on the context (part_001:339-395).
createAudioMask(features, mode, width, height, draws) ==
  <<FillRect(Whole(0), Whole(0), Whole(width), Whole(height), 0)>>
  \o (IF mode = "psychedelic"
      THEN <<FillRect(Whole(0), Whole(0), Whole(width), Whole(height), 1)>>
      ELSE IF mode = "minimal"
           THEN CornerSquares(width, height,
                              ServerCornerSize(width, height, features.volume))
           ELSE StrategicMask(features, width, height, draws))

\* The calls editImageWithMask makes on the context of its 512 x 512 mask
\* canvas (openaiService.ts:222-258).
maskCanvas(features, mode) ==
  <<FillRect(Whole(0), Whole(0), Whole(512), Whole(512), 0)>>
  \o (IF mode = "psychedelic"
      THEN <<FillRect(Whole(0), Whole(0), Whole(512), Whole(512), 1)>>
      ELSE IF mode = "minimal"
           THEN CornerSquares(512, 512, ClientCornerSize(features.volume))
           ELSE <<FillGradient(
                    FracAdd(Whole(256),
                            FracMul(FracSub(features.centroid, Frac(1, 2)),
                                    Whole(200))),
                    Whole(256),
                    FracAdd(Whole(100), FracMul(features.volume, Whole(300))))>>)

\* How much of [at, at + 1] lies in [lo, lo + len].
Overlap(lo, len, at) ==
  LET from == FracMax(lo, Whole(at))
      to == FracMin(FracAdd(lo, len), Whole(at + 1))
  IN IF FracLess(from, to) THEN FracSub(to, from) ELSE Whole(0)

\* A length in tenths of a pixel, rounded down.
Tenths(x) == (10 * x.n) \div x.d

\* The square of the distance from the centre of pixel (x, y) to the centre
\* of an arc or gradient, in tenths of a pixel.
Distance2(op, x, y) ==
  LET dx == 10 * x + 5 - Tenths(op.x)
      dy == 10 * y + 5 - Tenths(op.y)
  IN dx * dx + dy * dy

\* The part of pixel (x, y) a call paints: the area of the pixel inside a
\* rectangle; for an arc, all of it when its centre is inside.
Coverage(op, x, y) ==
  CASE op.shape = "rect" ->
         FracMul(Overlap(op.x, op.w, x), Overlap(op.y, op.h, y))
    [] op.shape = "arc" ->
         IF Distance2(op, x, y) <= Tenths(op.w) * Tenths(op.w)
         THEN Whole(1) ELSE Whole(0)
    [] OTHER -> Whole(1)

\* The colour a call paints pixel (x, y) with, 0 black to 1 white.
Colour(op, x, y) ==
  IF op.shape = "gradient"
  THEN LET d == SqrtBetween(Distance2(op, x, y), 0, 10 ^ 4)
       IN IF d >= Tenths(op.w) THEN Whole(0)
          ELSE Reduced(Tenths(op.w) - d, Tenths(op.w))
  ELSE Whole(op.style)

\* The value of pixel (x, y) after the first n calls, source-over.
RECURSIVE Painted(_, _, _, _)
Painted(ops, n, x, y) ==
  IF n = 0 THEN Whole(0)
  ELSE LET below == Painted(ops, n - 1, x, y)
       IN FracAdd(below,
                  FracMul(Coverage(ops[n], x, y),
                          FracSub(Colour(ops[n], x, y), below)))

\* The rows or columns of a canvas of n pixels whose pixels are looked at:
\* all of a small one; of a large one the ends, the middle, and both sides
\* of every edge the corner squares can have.
Probes(n) ==
  IF n <= 16 THEN 0 .. (n - 1)
  ELSE {k \in {0, 1, 55, 56, 76, 77, 102, 103, 152, 153, 154, 199, 200, 204,
               205, 255, 256, 307, 308, 311, 312, 357, 358, 359, 409, 410,
               435, 436, 510, 511} : k < n}

\* ----------------------------------------------------------------- server
\* generateAudioPrompt returning the effects it computes from the volume.
generateAudioPromptWithEffects(features, mode) ==
  IF FracLess(Frac(8, 10), features.volume)
  THEN "EXPLOSIVE CHAOS, maximum distortion, reality-breaking"
  ELSE IF FracLess(Frac(6, 10), features.volume)
       THEN "INTENSE ENERGY, heavy distortion, dramatic transforms"
       ELSE IF FracLess(Frac(4, 10), features.volume)
            THEN "DYNAMIC MOTION, moderate distortion, flowing transforms"
            ELSE IF FracLess(Frac(2, 10), features.volume)
                 THEN "GENTLE MOVEMENT, subtle distortion, smooth transforms"
                 ELSE "MINIMAL EFFECTS, very subtle changes, peaceful"

\* generateAudioPrompt (part_001:285-330): the effects and the seed are
\* computed from the features and left unused; the base prompt is returned.
generateAudioPrompt(features, mode) ==
  LET volumeEffects == generateAudioPromptWithEffects(features, mode)
      energyEffects ==
        IF FracLess(Frac(15, 100), features.energy)
        THEN "CHAOTIC FRACTALS, lightning patterns, explosive bursts"
        ELSE IF FracLess(Frac(10, 100), features.energy)
             THEN "SWIRLING VORTEXES, rippling waves, pulsing rhythms"
             ELSE IF FracLess(Frac(5, 100), features.energy)
                  THEN "FLOWING STREAMS, gentle waves, rhythmic patterns"
                  ELSE "SMOOTH GRADIENTS, soft transitions, minimal patterns"
      basePrompt == "Digital art style, high quality, artistic variation"
  IN basePrompt

\* generateSmartAudioPrompt (part_001:254-282): the words the prompt is
\* put together from.
generateSmartAudioPrompt(features, mode, imageDescription) ==
  [imageDescription |-> imageDescription,
   intensity |-> IF FracLess(Frac(7, 10), features.volume)
                 THEN "intense, dramatic"
                 ELSE IF FracLess(Frac(4, 10), features.volume)
                      THEN "moderate, dynamic" ELSE "subtle, gentle",
   movement |-> IF FracLess(Frac(1, 10), features.energy)
                THEN "swirling energy, flowing motion"
                ELSE IF FracLess(Frac(5, 100), features.energy)
                     THEN "gentle movement, soft dynamics"
                     ELSE "calm, peaceful",
   colorMood |-> IF FracLess(Frac(6, 10), features.centroid)
                 THEN "vibrant neon colors, electric palette"
                 ELSE IF FracLess(Frac(3, 10), features.centroid)
                      THEN "warm glowing colors, fiery tones"
                      ELSE "cool deep colors, midnight palette",
   mode |-> mode]

\* req.body.audioFeatures: absent, JSON of features, or text JSON.parse
\* rejects.
AudioFeaturesFields == {"missing", "json", "unparsable"}

\* Silence, and a steady tone in bin 1.
Silence ==
  <<[i \in 1 .. frequencyBinCount |-> NegInfinity],
    [i \in 1 .. frequencyBinCount |-> 0]>>

Tone ==
  <<[i \in 1 .. frequencyBinCount |-> IF i = 2 THEN 20 ELSE NegInfinity],
    [i \in 1 .. frequencyBinCount |-> 5]>>

\* What the analyser gives in the scenarios of the driver.
LiveInputs == {Silence, Tone}

\* What the analyser can give: any spectrum with any window.
AllInputs == Spectra \X Windows

\* The objects analyze publishes for them.
LiveSnapshots == {AnalyzeWindow(in[1], in[2]) : in \in LiveInputs}

AllSnapshots == {AnalyzeWindow(in[1], in[2]) : in \in AllInputs}

VARIABLES
  now,               \* Date.now()
  audioFeatures,     \* useAudioAnalyzer state: the latest snapshot
  isListening,       \* useAudioAnalyzer state
  audioContextRef,   \* "null", "running" or "closed"
  animationRef,      \* the frame id in the ref: "null", of a "pending" frame,
                     \* or of a "cancelled" one
  loops,             \* how many analysis loops have an animation frame pending
  pendingStarts,     \* initializeAudio calls awaiting getUserMedia
  reported,          \* what the last failed initializeAudio call told its caller
  uploadedImage,     \* App state
  transformedImage,  \* App state
  isTransforming,    \* App state
  isRealtimeActive,  \* App state
  lastTransformRef,  \* App ref
  calls,             \* the transformImageWithAI calls not settled yet, oldest first
  nCalls,            \* transforms started so far
  lastStartedAt,     \* when the latest transform started (NoTime: none yet)
  prevStartedAt,     \* when the one before it started, if live mode was not
                     \* switched on between the two (NoTime otherwise)
  lastSettledAt,     \* when a transform settled, none having started since
                     \* (NoTime otherwise)
  realtime,          \* a RealtimeTransformer: its image, its frame id, the
                     \* number of its loops with a frame pending, and what
                     \* it last passed to onUpdate
  imageData,         \* a pixel of a canvas: as read, and as written back
  renders,           \* the runs of the colour transform so far: what each
                     \* was given and the pixel it produced
  mask,              \* the mask canvas of the latest mask generation
  request            \* a POST /transform-image request and its responses

vars ==
  <<now, audioFeatures, isListening, audioContextRef, animationRef, loops,
    pendingStarts, reported, uploadedImage, transformedImage,
    isTransforming, isRealtimeActive, lastTransformRef, calls, nCalls,
    lastStartedAt, prevStartedAt, lastSettledAt, realtime, imageData, renders,
    mask, request>>

serverVars == <<mask, request>>

canvasVars == <<realtime, imageData, renders, serverVars>>

hookVars ==
  <<audioFeatures, isListening, audioContextRef, animationRef, loops,
    pendingStarts, reported>>

\* ------------------------------------------------------------ App: effect
\* The guard without its test of isTransforming.
EffectGuardReentrant(rt, img, lis, tr) ==
  rt /\ img # NoImage /\ lis

\* The guard without its test of isListening.
EffectGuardDeaf(rt, img, lis, tr) ==
  rt /\ img # NoImage /\ ~tr

\* App.tsx:50: the effect acts only in live mode, with an image, while
\* listening, and while no transform is in flight.
EffectGuard(rt, img, lis, tr) ==
  rt /\ img # NoImage /\ lis /\ ~tr

\* The gate left out.
CooldownNotChecked(t, last) ==
  TRUE

\* The gate opening one millisecond early.
CooldownAtLeast(t, last) ==
  t - last >= Cooldown

\* App.tsx:53: the 8 s gate, measured from lastTransformRef.
CooldownElapsed(t, last) ==
  t - last > Cooldown

\* App.tsx:105: the dependency list, compared with the previous render's.
\* tr is isTransforming as the handler left it.
DepsChanged(tr) ==
  \/ <<isRealtimeActive', uploadedImage', isListening', tr>>
       # <<isRealtimeActive, uploadedImage, isListening, isTransforming>>
  \/ ~FracEq(audioFeatures'.volume, audioFeatures.volume)
  \/ audioFeatures'.pitch # audioFeatures.pitch
  \/ audioFeatures'.energy # audioFeatures.energy

\* Nothing appended to the form yet.
NoPayload == [sent |-> FALSE]

\* transformImageWithAI as performTransformation calls it (App.tsx:65-69):
\* the image and the audioFeatures object of this render are captured, and
\* the call runs up to its first await, fetch(imageData)
\* (aiImageTransform.ts:544).  audioFeatures is the captured object as it
\* reads now; shared tells that its two arrays are those of the analysis
\* loop that published last, which writes into them at its next frame.
NewCall(img, features, shared) ==
  [image |-> img, stage |-> "blob", requests |-> 0, fallbacks |-> 0,
   backend |-> "none", audioFeatures |-> features, shared |-> shared,
   payload |-> NoPayload]

\* The re-render that follows an event and the effect run it causes
\* (App.tsx:49-105).  tr, last, cs and settled are isTransforming,
\* lastTransformRef, calls and lastSettledAt as the event's handler left them.
RunEffect(tr, last, cs, settled) ==
  IF /\ DepsChanged(tr)
     /\ EffectGuard(isRealtimeActive', uploadedImage', isListening', tr)
     /\ CooldownElapsed(now, last)
     /\ nCalls < MaxCalls
  THEN /\ lastTransformRef' = now
       /\ isTransforming' = TRUE
       /\ calls' = Append(cs, NewCall(uploadedImage', audioFeatures',
                                      animationRef' # "null"))
       /\ nCalls' = nCalls + 1
       /\ lastStartedAt' = now
       /\ prevStartedAt' = IF last = 0 THEN NoTime ELSE lastStartedAt
       /\ lastSettledAt' = NoTime
  ELSE /\ lastTransformRef' = last
       /\ isTransforming' = tr
       /\ calls' = cs
       /\ lastSettledAt' = settled
       /\ UNCHANGED <<nCalls, lastStartedAt, prevStartedAt>>

\* ------------------------------------------------- App: the user's events
\* reader.onload of handleImageUpload (App.tsx:27-38).
HandleImageUpload ==
  \E f \in Files :
    /\ transformedImage' = NoImage
    /\ uploadedImage' = Upload(f)
    /\ isRealtimeActive' = FALSE
    /\ UNCHANGED <<canvasVars, now, hookVars>>
    /\ RunEffect(isTransforming, lastTransformRef, calls, lastSettledAt)

\* toggleRealtimeMode (App.tsx:107-122); the early return of line 108 is
\* the guard.
ToggleRealtimeMode ==
  /\ uploadedImage # NoImage
  /\ isListening
  /\ UNCHANGED <<canvasVars, now, hookVars, uploadedImage, transformedImage>>
  /\ IF isRealtimeActive
     THEN /\ isRealtimeActive' = FALSE
          /\ RunEffect(isTransforming, lastTransformRef, calls, lastSettledAt)
     ELSE /\ isRealtimeActive' = TRUE
          /\ RunEffect(isTransforming, 0, calls, lastSettledAt)

\* Time passes: no render, no effect run.
AdvanceTime ==
  /\ \E t \in Instants : t > now /\ now' = t
  /\ UNCHANGED <<canvasVars, hookVars, uploadedImage, transformedImage,
                 isTransforming, isRealtimeActive, lastTransformRef, calls, nCalls,
                 lastStartedAt, prevStartedAt, lastSettledAt>>

\* --------------------------------------------------- transformImageWithAI
\* calls without its i-th element.
Without(cs, i) ==
  [j \in 1 .. Len(cs) - 1 |-> IF j < i THEN cs[j] ELSE cs[j + 1]]

\* result.startsWith('data:image/') (App.tsx:79): the backend's and the
\* canvas' results are PNG data URLs, the original is the uploaded image.
IsImageDataUrl(v) ==
  v.kind \in {"ai", "local", "upload"}

\* A catch that asks the service again where the code runs the local path.
FallbackRetrying(c) ==
  [c EXCEPT !.stage = "backend", !.requests = c.requests + 1]

\* The catch of transformImageWithAI (aiImageTransform.ts:589-595): the
\* failed attempt is not repeated; simulateTransformation is entered once
\* and runs up to its timer (aiImageTransform.ts:612).
Fallback(c) ==
  [c EXCEPT !.stage = "simDelay", !.fallbacks = c.fallbacks + 1]

\* The rest of performTransformation once the await of line 65 returns r
\* (App.tsx:71-99): r.length throws on undefined, a data:image/ URL is
\* displayed whatever the driver's state is by now.
Displayed(r) ==
  IF r # Undefined /\ IsImageDataUrl(r) THEN r ELSE transformedImage

\* The promise of call i resolves with r: performTransformation continues,
\* and its finally clears isTransforming (App.tsx:97-99).
Continue(i, r) ==
  /\ transformedImage' = Displayed(r)
  /\ UNCHANGED <<canvasVars, now, hookVars, uploadedImage, isRealtimeActive>>
  /\ RunEffect(FALSE, lastTransformRef, Without(calls, i), now)

\* A step of a call that settles nothing: no state of App changes.
Advance(i, c) ==
  /\ calls' = [calls EXCEPT ![i] = c]
  /\ UNCHANGED <<canvasVars, now, hookVars, uploadedImage, transformedImage, isTransforming,
                 isRealtimeActive, lastTransformRef, nCalls, lastStartedAt,
                 prevStartedAt, lastSettledAt>>

\* fetch(imageData) and response.blob() return (aiImageTransform.ts:544-562):
\* JSON.stringify reads the captured audioFeatures object as it is now, and
\* the form is posted to /transform-image; or the fetch threw.
BlobDone ==
  \E i \in 1 .. Len(calls), ok \in BOOLEAN :
    /\ calls[i].stage = "blob"
    /\ Advance(i, IF ok
                  THEN [calls[i] EXCEPT !.stage = "backend",
                                        !.requests = calls[i].requests + 1,
                                        !.payload = calls[i].audioFeatures]
                  ELSE Fallback(calls[i]))

\* The backend request ends (aiImageTransform.ts:559-595): a result is
\* returned, or one of the failures is thrown into the catch.
BackendRespond ==
  \E i \in 1 .. Len(calls), o \in BackendOutcomes :
    /\ calls[i].stage = "backend"
    /\ CASE o = "ok" ->
              Continue(i, [kind |-> "ai", src |-> calls[i].image.src])
         [] o = "noImageData" ->
              Continue(i, Undefined)
         [] OTHER ->
              Advance(i, Fallback([calls[i] EXCEPT !.backend = "failed",
                                                   !.payload = NoPayload]))

\* The timer of simulateTransformation fires, 1 to 3 s after it was set
\* (aiImageTransform.ts:612-616, 676), and the image starts loading.  When
\* it fires is left open.
SimTimer ==
  \E i \in 1 .. Len(calls) :
    /\ calls[i].stage = "simDelay"
    /\ Advance(i, [calls[i] EXCEPT !.stage = "imgLoad"])

\* img.onload (aiImageTransform.ts:617-669).  applyWebGLColorTransform
\* throws when the canvas gives no WebGL context (webglTransforms.ts:14-17);
\* the throw leaves the event handler, resolve is never called and the
\* promise stays pending for good.
ImgLoad ==
  \E i \in 1 .. Len(calls), webgl \in BOOLEAN :
    /\ calls[i].stage = "imgLoad"
    /\ IF webgl
       THEN Continue(i, [kind |-> "local", src |-> calls[i].image.src,
                         options |-> BurstOptions(calls[i].audioFeatures)])
       ELSE Advance(i, [calls[i] EXCEPT !.stage = "hung"])

\* img.onerror (aiImageTransform.ts:671-674): the original is returned.
ImgError ==
  \E i \in 1 .. Len(calls) :
    /\ calls[i].stage = "imgLoad"
    /\ Continue(i, calls[i].image)

\* ------------------------------------------------------- useAudioAnalyzer
\* getFloatFrequencyData and getFloatTimeDomainData (useAudioAnalyzer.ts:
\* 43-44) write into the arrays of the loop that published last: every
\* captured object that holds these arrays reads the new contents.
Overwritten(cs, frequencyData, waveformData) ==
  [i \in 1 .. Len(cs) |->
     IF cs[i].shared
     THEN [cs[i] EXCEPT !.audioFeatures.frequency = frequencyData,
                        !.audioFeatures.waveform = waveformData]
     ELSE cs[i]]

\* Another loop publishes: the arrays of the captured objects are no longer
\* those of the loop that published last, and are followed no further.
Detached(cs) ==
  [i \in 1 .. Len(cs) |-> [cs[i] EXCEPT !.shared = FALSE]]

\* startListening = initializeAudio up to its await (useAudioAnalyzer.ts:
\* 112-121): a new AudioContext replaces the one in the ref and microphone
\* access is requested.  The button offers it while isListening is false
\* (App.tsx:179), so it can be pressed again while a request is pending.
StartListening ==
  /\ ~isListening
  /\ pendingStarts + loops < MaxLoops
  /\ pendingStarts' = pendingStarts + 1
  /\ audioContextRef' = "running"
  /\ reported' = "none"
  /\ UNCHANGED <<canvasVars, now, audioFeatures, isListening, animationRef, loops,
                 uploadedImage, transformedImage, isTransforming,
                 isRealtimeActive, lastTransformRef, calls, nCalls,
                 lastStartedAt, prevStartedAt, lastSettledAt>>

\* The catch of initializeAudio (useAudioAnalyzer.ts:138-140): the error is
\* logged; nothing is set, nothing is thrown on, and the promise of
\* startListening resolves with no value.
CaptureFailed ==
  /\ reported' = "nothing"
  /\ UNCHANGED <<canvasVars, now, audioFeatures, isListening, audioContextRef, animationRef,
                 loops, uploadedImage, transformedImage, isRealtimeActive>>
  /\ RunEffect(isTransforming, lastTransformRef, calls, lastSettledAt)

\* getUserMedia rejects, e.g. permission denied (useAudioAnalyzer.ts:121).
GetUserMediaDenied ==
  /\ pendingStarts > 0
  /\ pendingStarts' = pendingStarts - 1
  /\ CaptureFailed

\* getUserMedia resolves (useAudioAnalyzer.ts:121-137): the analyser and the
\* source are created on the context now in the ref, isListening is set and
\* startAnalysis runs its first analyze() (useAudioAnalyzer.ts:30-110),
\* which publishes a reading and requests the loop's first frame.  On a
\* context that stopListening has closed meanwhile the platform may refuse
\* to create the nodes; the throw then ends in the catch.
\* The arrays startAnalysis allocates are new ones (useAudioAnalyzer.ts:
\* 39-40): no object captured before holds them.
GetUserMediaGrantedOn(snapshots) ==
  /\ pendingStarts > 0
  /\ pendingStarts' = pendingStarts - 1
  /\ \E nodes \in (IF audioContextRef = "closed" THEN BOOLEAN ELSE {TRUE}) :
       IF nodes
       THEN /\ isListening' = TRUE
            /\ \E published \in snapshots : audioFeatures' = published
            /\ loops' = loops + 1
            /\ animationRef' = "pending"
            /\ UNCHANGED <<canvasVars, now, audioContextRef, reported, uploadedImage,
                           transformedImage, isRealtimeActive>>
            /\ RunEffect(isTransforming, lastTransformRef, Detached(calls),
                         lastSettledAt)
       ELSE CaptureFailed

GetUserMediaGranted == GetUserMediaGrantedOn(LiveSnapshots)

\* A frame of an analysis loop: analyze (useAudioAnalyzer.ts:42-107) reads
\* the analyser into the loop's two arrays, publishes a new object that
\* holds these same arrays, and requests the next frame, whose id replaces
\* the one in animationRef.  same: the loop is the one that published last
\* (its frame is the one in animationRef), so the arrays it overwrites are
\* those of the objects captured since; otherwise it is another loop, with
\* arrays of its own.
AnalyzeOn(snapshots) ==
  \E published \in snapshots, same \in BOOLEAN :
    /\ IF same THEN animationRef = "pending"
               ELSE loops > (IF animationRef = "pending" THEN 1 ELSE 0)
    /\ audioFeatures' = published
    /\ animationRef' = "pending"
    /\ UNCHANGED <<canvasVars, now, isListening, audioContextRef, loops, pendingStarts,
                   reported, uploadedImage, transformedImage, isRealtimeActive>>
    /\ RunEffect(isTransforming, lastTransformRef,
                 IF same THEN Overwritten(calls, published.frequency,
                                          published.waveform)
                         ELSE Detached(calls),
                 lastSettledAt)

\* analyze held back while a transform is in flight.
AnalyzeWhileIdle == ~isTransforming /\ AnalyzeOn(LiveSnapshots)

Analyze == AnalyzeOn(LiveSnapshots)

\* stopListening (useAudioAnalyzer.ts:143-157): the frame whose id is in
\* animationRef is cancelled (the ref keeps the id), the context in the ref
\* is closed, isListening is cleared.  The button offers it while isListening is true (App.tsx:179).
StopListening ==
  /\ isListening
  /\ loops' = IF animationRef = "pending" THEN loops - 1 ELSE loops
  /\ animationRef' = IF animationRef = "pending" THEN "cancelled" ELSE animationRef
  /\ audioContextRef' = IF audioContextRef = "null" THEN "null" ELSE "closed"
  /\ isListening' = FALSE
  /\ UNCHANGED <<canvasVars, now, audioFeatures, pendingStarts, reported, uploadedImage,
                 transformedImage, isRealtimeActive>>
  /\ RunEffect(isTransforming, lastTransformRef, calls, lastSettledAt)

\* ---------------------------------------------------- RealtimeTransformer
\* new RealtimeTransformer() (aiImageTransform.ts:684-693).
NewRealtimeTransformer ==
  [originalImage |-> NoImage, animationFrame |-> "null", loops |-> 0,
   output |-> NoImage]

\* No canvas pixel read yet.
NoImageData ==
  [original |-> <<0, 0, 0>>, data |-> <<0, 0, 0>>, converted |-> FALSE]

\* No mask generated yet.
NoMask == [made |-> FALSE]

\* No request received yet.
NoRequest == [received |-> FALSE]

realtimeOnly ==
  <<now, hookVars, uploadedImage, transformedImage, isTransforming,
    isRealtimeActive, lastTransformRef, calls, nCalls, lastStartedAt,
    prevStartedAt, lastSettledAt, imageData, renders, serverVars>>

\* The load event of the image given to setImage (aiImageTransform.ts:
\* 695-706).
SetImage ==
  \E f \in Files :
    /\ realtime' = [realtime EXCEPT !.originalImage = Upload(f)]
    /\ UNCHANGED realtimeOnly

\* The body of transform (aiImageTransform.ts:711-751), run by a loop whose
\* frame id is the one in animationFrame (mine) or by another one.
\* getAudioFeatures returns the latest snapshot of the hook.  Without a
\* WebGL context applyWebGLColorTransform throws (webglTransforms.ts:14-17)
\* and the loop ends there.
Transform(mine, started) ==
  \E webgl \in BOOLEAN :
    IF webgl
    THEN realtime' =
           [realtime EXCEPT
              !.output = [kind |-> "realtime",
                          src |-> realtime.originalImage.src,
                          options |-> ContinuousOptions(audioFeatures)],
              !.animationFrame = "pending",
              !.loops = started + 1]
    ELSE realtime' =
           [realtime EXCEPT
              !.animationFrame = IF mine THEN "fired" ELSE @,
              !.loops = started]

\* startRealtimeTransform (aiImageTransform.ts:708-754): nothing without an
\* image, otherwise the first transform() of a new loop.
StartRealtimeTransform ==
  /\ realtime.loops < MaxLoops
  /\ IF realtime.originalImage = NoImage
     THEN UNCHANGED realtime
     ELSE Transform(FALSE, realtime.loops)
  /\ UNCHANGED realtimeOnly

\* An animation frame of a loop of the transformer.
TransformFrame ==
  /\ \E mine \in BOOLEAN :
       /\ IF mine THEN realtime.animationFrame = "pending"
                  ELSE realtime.loops >
                         (IF realtime.animationFrame = "pending" THEN 1 ELSE 0)
       /\ Transform(mine, realtime.loops - 1)
  /\ UNCHANGED realtimeOnly

\* stopRealtimeTransform (aiImageTransform.ts:756-761): the frame whose id
\* is in animationFrame is cancelled and the field is cleared.
StopRealtimeTransform ==
  /\ realtime' =
       [realtime EXCEPT
          !.loops = IF realtime.animationFrame = "pending" THEN @ - 1 ELSE @,
          !.animationFrame = "null"]
  /\ UNCHANGED realtimeOnly

\* The pixel loop of the colour shift (aiImageTransform.ts:168-183): the
\* pixel read from the canvas is replaced by its shifted colour.
TransformPixel(hueShift, saturationBoost, brightnessAdjust) ==
  /\ ~imageData.converted
  /\ imageData' =
       [imageData EXCEPT
          !.data = ShiftColour(imageData.data, hueShift, saturationBoost,
                               brightnessAdjust),
          !.converted = TRUE]
  /\ UNCHANGED <<now, hookVars, uploadedImage, transformedImage,
                 isTransforming, isRealtimeActive, lastTransformRef, calls,
                 nCalls, lastStartedAt, prevStartedAt, lastSettledAt,
                 realtime, renders, serverVars>>

\* One run of the colour transform on one pixel.
Render(engine, image, co, features, seed, data) ==
  /\ Len(renders) < MaxRenders
  /\ renders' = Append(renders,
                       [engine |-> engine, image |-> image, co |-> co,
                        features |-> features, seed |-> seed, data |-> data])
  /\ UNCHANGED <<now, hookVars, uploadedImage, transformedImage,
                 isTransforming, isRealtimeActive, lastTransformRef, calls,
                 nCalls, lastStartedAt, prevStartedAt, lastSettledAt,
                 realtime, imageData, serverVars>>

\* applyWebGLColorTransform (webglTransforms.ts:9-168) with the options of
\* simulateTransformation and a given seed.
ApplyWebGLColorTransform ==
  \E image \in RenderPixels, co \in TexCoords, features \in RenderFeatures,
     seed \in Seeds :
    Render("webgl", image, co, features, seed,
           FragmentShader(image, co, BurstOptions(features), seed))

\* The pixel loop of the canvas version of simulateTransformation
\* (aiImageTransform.ts:168-192), with its two draws of Math.random().
SimulateTransformationPixel ==
  \E image \in RenderPixels, co \in TexCoords, features \in RenderFeatures,
     draw1 \in MathRandom, draw2 \in MathRandom :
    Render("canvas2d", image, co, features, NoSeed,
           PixelLoopBody(image, features, draw1, draw2))

\* A mask canvas after its drawing calls.  Every call makes a canvas of its
\* own: one of them is followed.
Drawn(site, features, mode, width, height, ops) ==
  /\ ~mask.made
  /\ mask' = [made |-> TRUE, site |-> site, features |-> features,
              mode |-> mode, width |-> width, height |-> height, ops |-> ops]
  /\ UNCHANGED <<now, hookVars, uploadedImage, transformedImage,
                 isTransforming, isRealtimeActive, lastTransformRef, calls,
                 nCalls, lastStartedAt, prevStartedAt, lastSettledAt,
                 realtime, imageData, renders, request>>

\* createAudioMask on the server (part_001:333-398), called by the handler
\* with the dimensions of the resized image (part_001:122-130).
CreateAudioMask ==
  \E features \in MaskFeatures, mode \in MaskModes, size \in MaskSizes :
    \E draws \in [1 .. StrategicDraws(features) -> MaskDraws] :
      Drawn("server", features, mode, size[1], size[2],
            createAudioMask(features, mode, size[1], size[2], draws))

\* The mask of editImageWithMask in the browser (openaiService.ts:222-258).
EditImageWithMask ==
  \E features \in MaskFeatures, mode \in MaskModes :
    Drawn("client", features, mode, 512, 512, maskCanvas(features, mode))

\* ------------------------------------------------- POST /transform-image
serverOnly ==
  <<now, hookVars, uploadedImage, transformedImage, isTransforming,
    isRealtimeActive, lastTransformRef, calls, nCalls, lastStartedAt,
    prevStartedAt, lastSettledAt, realtime, imageData, renders>>

\* res.status(status).json(body): one more response of the request.
Respond(req, status, body) ==
  [req EXCEPT !.stage = "done",
              !.responses = Append(@, [status |-> status, body |-> body])]

\* A catch that only logs.
TransformationFailedSilently(req) ==
  [req EXCEPT !.stage = "done"]

\* The catch of the handler (part_001:242-250).
TransformationFailed(req) ==
  Respond(req, 500, [error |-> "Transformation failed"])

\* The handler up to its first await (part_001:68-110): the two checks,
\* JSON.parse, generateAudioPrompt, and the start of the conversion by
\* sharp.  One request is followed.
PostTransformImage ==
  /\ ~request.received
  /\ \E image \in BOOLEAN, field \in AudioFeaturesFields,
        features \in MaskFeatures, mode \in MaskModes, openai \in BOOLEAN :
       LET req == [received |-> TRUE, image |-> image, field |-> field,
                   audioFeatures |-> features, mode |-> mode,
                   openai |-> openai, stage |-> "validate",
                   responses |-> <<>>, serviceCalls |-> 0,
                   basicPrompt |-> "", smartPrompt |-> "none",
                   processed |-> "none"]
       IN request' =
            IF ~image
            THEN Respond(req, 400, [error |-> "No image provided"])
            ELSE IF field = "missing"
                 THEN Respond(req, 400,
                              [error |-> "No audio features provided"])
                 ELSE IF field = "unparsable"
                      THEN TransformationFailed(req)
                      ELSE [req EXCEPT
                              !.basicPrompt =
                                 generateAudioPrompt(features, mode),
                              !.stage = "sharp"]
  /\ UNCHANGED <<serverOnly, mask>>

\* sharp has converted and measured the image, or has failed
\* (part_001:100-150): then the mask is made and written, and GPT-4o is
\* called; without a client the call throws.
SharpSettled ==
  /\ request.received
  /\ request.stage = "sharp"
  /\ \E ok \in BOOLEAN, size \in MaskSizes :
       \E draws \in [1 .. StrategicDraws(request.audioFeatures)
                       -> MaskDraws] :
         IF ~ok
         THEN /\ request' = TransformationFailed(request)
              /\ UNCHANGED mask
         ELSE /\ mask' =
                   [made |-> TRUE, site |-> "server",
                    features |-> request.audioFeatures,
                    mode |-> request.mode,
                    width |-> size[1], height |-> size[2],
                    ops |-> createAudioMask(request.audioFeatures,
                                            request.mode, size[1], size[2],
                                            draws)]
              /\ request' =
                   IF request.openai
                   THEN [request EXCEPT !.stage = "vision",
                                        !.serviceCalls = @ + 1]
                   ELSE TransformationFailed(request)
  /\ UNCHANGED serverOnly

\* openai.chat.completions.create settles (part_001:153-191): with an
\* answer the smart prompt is made and DALL-E 3 is called.
VisionSettled ==
  /\ request.received
  /\ request.stage = "vision"
  /\ \E outcome \in {"described", "empty", "rejected"} :
       request' =
         IF outcome = "rejected"
         THEN TransformationFailed(request)
         ELSE [request EXCEPT
                 !.smartPrompt =
                    generateSmartAudioPrompt(
                      request.audioFeatures, request.mode,
                      IF outcome = "empty" THEN "digital artwork"
                      ELSE "description"),
                 !.stage = "generate",
                 !.serviceCalls = @ + 1]
  /\ UNCHANGED <<serverOnly, mask>>

\* openai.images.generate settles (part_001:185-203): with a URL the image
\* is fetched.
GenerateSettled ==
  /\ request.received
  /\ request.stage = "generate"
  /\ \E outcome \in {"url", "no url", "rejected"} :
       request' =
         IF outcome = "url"
         THEN [request EXCEPT !.stage = "fetch"]
         ELSE TransformationFailed(request)
  /\ UNCHANGED <<serverOnly, mask>>

\* fetch(imageUrl) and arrayBuffer() settle (part_001:202-211): with the
\* image applyAudioEffects is started.
FetchSettled ==
  /\ request.received
  /\ request.stage = "fetch"
  /\ \E ok \in BOOLEAN :
       request' =
         IF ok
         THEN [request EXCEPT !.stage = "effects"]
         ELSE TransformationFailed(request)
  /\ UNCHANGED <<serverOnly, mask>>

\* applyAudioEffects settles (part_001:207-240): its failure is caught and
\* the generated image is sent as it is.
EffectsSettled ==
  /\ request.received
  /\ request.stage = "effects"
  /\ \E ok \in BOOLEAN :
       LET processedImage == IF ok THEN "processed" ELSE "generated"
       IN request' =
            Respond([request EXCEPT !.processed = processedImage], 200,
                    [success |-> TRUE, imageData |-> processedImage,
                     prompt |-> request.smartPrompt])
  /\ UNCHANGED <<serverOnly, mask>>

\* ---------------------------------------------------------- specification
\* The state after the first render (App.tsx:7-13, useAudioAnalyzer.ts:14-28),
\* with img as the uploaded image.
InitWith(img) ==
  /\ now = Epoch
  /\ audioFeatures = InitialAudioFeatures
  /\ isListening = FALSE
  /\ audioContextRef = "null"
  /\ animationRef = "null"
  /\ loops = 0
  /\ pendingStarts = 0
  /\ reported = "none"
  /\ uploadedImage = img
  /\ transformedImage = NoImage
  /\ isTransforming = FALSE
  /\ isRealtimeActive = FALSE
  /\ lastTransformRef = 0
  /\ calls = <<>>
  /\ nCalls = 0
  /\ lastStartedAt = NoTime
  /\ prevStartedAt = NoTime
  /\ lastSettledAt = NoTime
  /\ realtime = NewRealtimeTransformer
  /\ renders = <<>>
  /\ mask = NoMask
  /\ request = NoRequest

Init == InitWith(NoImage) /\ imageData = NoImageData

Next ==
  \/ HandleImageUpload
  \/ ToggleRealtimeMode
  \/ AdvanceTime
  \/ StartListening
  \/ GetUserMediaDenied
  \/ GetUserMediaGranted
  \/ Analyze
  \/ StopListening
  \/ BlobDone
  \/ BackendRespond
  \/ SimTimer
  \/ ImgLoad
  \/ ImgError

Spec == Init /\ [][Next]_vars

\* The platform delivers what a call awaits: the fetches return, the timer
\* fires, the image's load event (onload or onerror) arrives.
FairSpec ==
  /\ Spec
  /\ WF_vars(BlobDone)
  /\ WF_vars(BackendRespond)
  /\ WF_vars(SimTimer)
  /\ WF_vars(ImgLoad \/ ImgError)

\* The driver's timing scenario: an image is loaded, audio is started, live
\* mode is started, and from then on only time passes while the capture
\* loop and the transforms run.
ImageLoaded == \E f \in Files : InitWith(Upload(f)) /\ imageData = NoImageData

StartLiveMode == ~isRealtimeActive /\ ToggleRealtimeMode

AdvanceSimulatedTime == isRealtimeActive /\ AdvanceTime

LiveNext ==
  \/ StartListening
  \/ GetUserMediaGranted
  \/ StartLiveMode
  \/ AdvanceSimulatedTime
  \/ Analyze
  \/ BlobDone
  \/ BackendRespond
  \/ SimTimer
  \/ ImgLoad
  \/ ImgError

LiveSpec == ImageLoaded /\ [][LiveNext]_vars

\* The same scenario where the platform delivers what a call awaits.  What
\* the microphone hears and how far the clock has moved when something
\* happens are not promised.
LiveFairSpec ==
  /\ LiveSpec
  /\ WF_vars(BlobDone)
  /\ WF_vars(BackendRespond)
  /\ WF_vars(SimTimer)
  /\ WF_vars(ImgLoad \/ ImgError)

\* The analysis of one analyzer instance: startListening has been called
\* (useAudioAnalyzer.ts:112-121), access is granted, and the first analyze()
\* of startAnalysis reads any spectrum and any window; the loop then runs
\* until stopListening.
AudioRequested ==
  /\ now = Epoch
  /\ audioFeatures = InitialAudioFeatures
  /\ isListening = FALSE
  /\ audioContextRef = "running"
  /\ animationRef = "null"
  /\ loops = 0
  /\ pendingStarts = 1
  /\ reported = "none"
  /\ uploadedImage = NoImage
  /\ transformedImage = NoImage
  /\ isTransforming = FALSE
  /\ isRealtimeActive = FALSE
  /\ lastTransformRef = 0
  /\ calls = <<>>
  /\ nCalls = 0
  /\ lastStartedAt = NoTime
  /\ prevStartedAt = NoTime
  /\ lastSettledAt = NoTime
  /\ realtime = NewRealtimeTransformer
  /\ renders = <<>>
  /\ mask = NoMask
  /\ request = NoRequest
  /\ imageData = NoImageData

FirstAnalyze == GetUserMediaGrantedOn(AllSnapshots)

AnalysisNext ==
  \/ FirstAnalyze
  \/ Analyze
  \/ StopListening

AnalysisSpec == AudioRequested /\ [][AnalysisNext]_vars

\* The two mappings from features to parameters: the local fallback of a
\* transform started with any valid features is about to render, and a
\* RealtimeTransformer is given an image and run on the same features.
FallbackRendering ==
  \E features \in ValidAudioFeatures :
    /\ now = Epoch
    /\ audioFeatures = features
    /\ isListening = TRUE
    /\ audioContextRef = "running"
    /\ animationRef = "pending"
    /\ loops = 1
    /\ pendingStarts = 0
    /\ reported = "none"
    /\ uploadedImage = Upload("imgA")
    /\ transformedImage = NoImage
    /\ isTransforming = TRUE
    /\ isRealtimeActive = TRUE
    /\ lastTransformRef = Epoch
    /\ calls = <<[NewCall(Upload("imgA"), features, TRUE) EXCEPT
                    !.stage = "imgLoad", !.requests = 1, !.fallbacks = 1,
                    !.backend = "failed"]>>
    /\ nCalls = 1
    /\ lastStartedAt = Epoch
    /\ prevStartedAt = NoTime
    /\ lastSettledAt = NoTime
    /\ realtime = NewRealtimeTransformer
    /\ renders = <<>>
    /\ mask = NoMask
    /\ request = NoRequest
    /\ imageData = NoImageData

MapperNext ==
  \/ ImgLoad
  \/ ImgError
  \/ SetImage
  \/ StartRealtimeTransform
  \/ TransformFrame
  \/ StopRealtimeTransform

MapperSpec == FallbackRendering /\ [][MapperNext]_vars

\* The colour conversions on their own: any pixel is on the canvas, and it
\* is shifted with hue shift 0 and both gains 1.
PixelRead ==
  \E rgb \in Pixels :
    /\ InitWith(NoImage)
    /\ imageData = [original |-> rgb, data |-> rgb, converted |-> FALSE]

RoundTrip == TransformPixel(Frac(0, 1), Frac(1, 1), Frac(1, 1))

PixelSpec == PixelRead /\ [][RoundTrip]_vars

\* Masks made one after the other, on the server and in the browser.
MaskNext ==
  \/ CreateAudioMask
  \/ EditImageWithMask

MaskSpec == Init /\ [][MaskNext]_vars

\* One request to the server, from its arrival to its response.
ServerNext ==
  \/ PostTransformImage
  \/ SharpSettled
  \/ VisionSettled
  \/ GenerateSettled
  \/ FetchSettled
  \/ EffectsSettled

ServerSpec == Init /\ [][ServerNext]_vars

\* The colour transform run several times, by either implementation.
RenderNext ==
  \/ ApplyWebGLColorTransform
  \/ SimulateTransformationPixel

RenderSpec == Init /\ [][RenderNext]_vars

\* ------------------------------------------------------------------ claims
\* C1: at most one transformImageWithAI call is in flight at any time,
\* whatever the interleaving of readings, toggles, uploads, start and stop.
C1_AtMostOneInFlight ==
  Len(calls) <= 1

\* A transform is in flight while live mode is on again, audio is listening
\* and the gate is open: only isTransforming holds the next one back.
C1_Witness ==
  /\ Len(calls) = 1
  /\ isRealtimeActive /\ isListening /\ uploadedImage # NoImage
  /\ CooldownElapsed(now, lastTransformRef)
  /\ nCalls < MaxCalls

\* C2, as stated: a transform that follows another starts only when at
\* least 8000 ms have passed since the earlier one completed.
C2_CooldownSinceCompletion ==
  [][(nCalls' = nCalls + 1 /\ nCalls >= 1)
       => (lastSettledAt # NoTime /\ now' - lastSettledAt >= Cooldown)]_vars

\* C2, amended: of two consecutive transforms with no switching-on of live
\* mode between them, the second starts more than 8000 ms after the first
\* one started.
C2_CooldownSinceStart ==
  prevStartedAt # NoTime => lastStartedAt - prevStartedAt > Cooldown

\* A second transform has started, with no switching-on of live mode since
\* the first, less than 8000 ms after the first completed.
C2_Witness ==
  /\ nCalls = 2
  /\ prevStartedAt = Epoch
  /\ lastStartedAt = Epoch + Cooldown + 1

\* C3, as stated: after start and start live mode, no transform has been
\* invoked while less than 8000 ms have passed, and exactly one once exactly
\* 8000 ms have passed.  In LiveSpec live mode starts at Epoch.
C3_FirstTransformAfterCooldown ==
  isRealtimeActive =>
    /\ now - Epoch < Cooldown => nCalls = 0
    /\ now - Epoch = Cooldown => nCalls = 1

\* C3, amended: after start and start live mode, one transform is invoked at
\* once, and while at most 8000 ms have passed it is the only one.
C3_OneTransformUntilCooldown ==
  (isRealtimeActive /\ now - Epoch <= Cooldown) => nCalls = 1

\* Exactly 8000 ms after live mode started the first transform has settled,
\* audio is listening, and still only one transform has been invoked.
C3_Witness ==
  /\ isRealtimeActive /\ isListening
  /\ now - Epoch = Cooldown
  /\ ~isTransforming
  /\ nCalls = 1

\* C4: every transform cycle that is started eventually completes and
\* clears isTransforming, whether the backend call succeeded or failed and
\* whether or not the local fallback could render.
C4_EveryCycleCompletes ==
  \A n \in 1 .. MaxCalls :
    (nCalls = n /\ isTransforming) ~> (nCalls > n \/ ~isTransforming)

\* C5: whatever the failure of the backend request, the promise of
\* transformImageWithAI resolves with the result of the local path, or with
\* the original image when the image cannot be loaded; the caller displays
\* what it resolves with.
C5_FailureFallsBack ==
  \A f \in Files :
    (\E i \in 1 .. Len(calls) :
       calls[i].backend = "failed" /\ calls[i].image = Upload(f))
      ~> \/ transformedImage.kind = "local" /\ transformedImage.src = f
         \/ transformedImage = Upload(f)

\* C6: in one transform cycle the service is requested at most once and the
\* local path is run at most once; once the request has failed the local
\* path has been run exactly once and the service is not requested again.
C6_OneRequestOneFallback ==
  \A i \in 1 .. Len(calls) :
    /\ calls[i].requests <= 1
    /\ calls[i].fallbacks <= 1
    /\ calls[i].backend = "failed" =>
         /\ calls[i].requests = 1
         /\ calls[i].fallbacks = 1
         /\ calls[i].stage \in {"simDelay", "imgLoad", "hung"}

\* A cycle whose request failed and whose local path has reached the image.
C6_Witness ==
  \E i \in 1 .. Len(calls) :
    /\ calls[i].backend = "failed"
    /\ calls[i].stage = "imgLoad"
    /\ calls[i].requests = 1
    /\ calls[i].fallbacks = 1

\* C7: stopListening leaves isListening false, and no step that leaves
\* isListening false starts a transform, whatever else changes: a transform
\* starts again only once audio is listening again.
C7_NoTransformWhileStopped ==
  [][/\ StopListening => ~isListening'
     /\ ~isListening' => nCalls' = nCalls]_vars

\* Audio has been stopped with live mode on, an image present, no transform
\* in flight and the cooldown elapsed, while a loop still publishes readings.
C7_Witness ==
  /\ audioContextRef = "closed"
  /\ ~isListening
  /\ isRealtimeActive
  /\ uploadedImage # NoImage
  /\ ~isTransforming
  /\ CooldownElapsed(now, lastTransformRef)
  /\ loops > 0
  /\ nCalls < MaxCalls

\* C8: a transform that completes while audio is stopped or live mode is
\* off leaves the displayed transformed image as it was.
C8_ResultDiscardedAfterStop ==
  [][((BackendRespond \/ ImgLoad \/ ImgError)
        /\ Len(calls') < Len(calls)
        /\ (~isRealtimeActive \/ ~isListening))
      => transformedImage' = transformedImage]_vars

\* C9: after stopListening and until audio listens again (isListening is
\* false and the context in the ref is the closed one) no frame of an
\* analysis loop runs: no reading is published, no frame is requested.
C9_NoTickAfterStop ==
  [][(audioContextRef = "closed" /\ ~isListening) => ~Analyze]_vars

\* C10: when getUserMedia rejects, the hook is idle afterwards and the
\* failure is reported to the caller as CaptureUnavailable.
C10_CaptureFailureReported ==
  [][GetUserMediaDenied =>
       /\ ~isListening'
       /\ loops' = 0
       /\ reported' = "CaptureUnavailable"]_vars

\* C11: while a transform is in flight and an analysis loop runs, a frame
\* of the loop can always run and publish a snapshot other than the latest
\* one: the transform never blocks the loop.
C11_AnalysisNeverBlocked ==
  (Len(calls) > 0 /\ loops > 0) =>
    ENABLED (Analyze /\ audioFeatures' # audioFeatures)

\* A transform is in flight and the loop has published since it started.
C11_Witness ==
  /\ isTransforming
  /\ loops > 0
  /\ \E i \in 1 .. Len(calls) :
       calls[i].audioFeatures.energy # audioFeatures.energy

\* C12: a frame of the analysis loop changes no field of a snapshot that
\* was published before and is still held by a transform, the contents of
\* its frequency and waveform arrays included.
C12_PublishedSnapshotImmutable ==
  [][Analyze =>
       \A i \in 1 .. Len(calls) :
         calls'[i].audioFeatures = calls[i].audioFeatures]_vars

\* C13: the audio features a transform sends to the backend are those of one
\* analysis frame (or the initial ones): the scalar features are the ones
\* analyze computes from the frequency and waveform arrays sent with them.
C13_PayloadFromOneTick ==
  \A i \in 1 .. Len(calls) :
    calls[i].payload # NoPayload =>
      \/ calls[i].payload = InitialAudioFeatures
      \/ calls[i].payload = AnalyzeWindow(calls[i].payload.frequency,
                                          calls[i].payload.waveform)

\* C14: in every snapshot the hook exposes, the initial one included, the
\* frequency and the waveform arrays have the same length, the analyser's
\* bin count.
C14_SameFixedLength ==
  /\ Len(audioFeatures.frequency) = Len(audioFeatures.waveform)
  /\ Len(audioFeatures.frequency) = frequencyBinCount

\* C15: every snapshot has volume, centroid and rolloff in [0, 1], a bin
\* index as pitch and an energy of 0 or more.
C15_FeaturesInRange ==
  /\ \A x \in {audioFeatures.volume, audioFeatures.centroid,
               audioFeatures.rolloff} :
       x.d > 0 /\ 0 <= x.n /\ x.n <= x.d
  /\ audioFeatures.pitch \in 0 .. Len(audioFeatures.frequency) - 1
  /\ audioFeatures.energy >= 0

\* A window so loud that volume * 10 is above 1 has been analyzed.
C15_Witness ==
  /\ animationRef = "pending"
  /\ VolumeTimesTen(audioFeatures.waveform) > 1000
  /\ audioFeatures.volume = Frac(1000, 1000)

\* C16: for a spectrum with no magnitude the snapshot has centroid 0 and
\* rolloff 0, and for a window of zeros it has volume 0, each a number (no
\* division by zero).
C16_SilenceGivesZeros ==
  /\ MagnitudeSum(audioFeatures.frequency, 1) = 0 =>
       /\ audioFeatures.centroid.d > 0 /\ audioFeatures.centroid.n = 0
       /\ audioFeatures.rolloff.d > 0 /\ audioFeatures.rolloff.n = 0
  /\ (\A i \in 1 .. Len(audioFeatures.waveform) : audioFeatures.waveform[i] = 0) =>
       audioFeatures.volume.d > 0 /\ audioFeatures.volume.n = 0

\* Silence has been analyzed and published.
C16_Witness ==
  /\ animationRef = "pending"
  /\ audioFeatures.frequency = Silence[1]
  /\ audioFeatures.waveform = Silence[2]
  /\ audioFeatures.energy = 0

\* C17: the rolloff analyze publishes is i / N, i the smallest bin such that
\* the magnitudes of bins 0..i sum to 90% of the total or more (bin 0 when
\* the total is 0).
C17_RolloffIsFirstBinAtNinetyPercent ==
  animationRef # "null" =>
    LET fd == audioFeatures.frequency
        total == MagnitudeSum(fd, 1)
        Reached(i) == 10 * (total - MagnitudeSum(fd, i + 2)) >= 9 * total
        first == CHOOSE i \in 0 .. Len(fd) - 1 :
                   Reached(i) /\ \A j \in 0 .. i - 1 : ~Reached(j)
    IN FracEq(audioFeatures.rolloff, Frac(first, Len(fd)))

\* A spectrum whose rolloff lies strictly between the first and the last
\* bin has been analyzed.
C17_Witness ==
  /\ animationRef = "pending"
  /\ audioFeatures.rolloff.n = 3
  /\ audioFeatures.frequency[1] = 20

\* C18 as stated: the pitch is the bin of the largest value among bins
\* 1..N/4, bin N/4 included.
C18_PitchAmongBinsUpToQuarter ==
  animationRef # "null" =>
    LET fd == audioFeatures.frequency
        range == 1 .. (Len(fd) \div 4)
    IN (\E i \in range : fd[i + 1] # NegInfinity) =>
         /\ audioFeatures.pitch \in range
         /\ \A j \in range : fd[j + 1] <= fd[audioFeatures.pitch + 1]

\* C18: the pitch is the first bin holding the largest value among the bins
\* i with 1 <= i < N/4 (bin 0 and bin N/4 excluded), and 0 when none of them
\* holds a value above -Infinity.
C18_PitchAmongBinsBelowQuarter ==
  animationRef # "null" =>
    LET fd == audioFeatures.frequency
        range == {i \in 1 .. Len(fd) - 1 : 4 * i < Len(fd)}
        p == audioFeatures.pitch
    IN IF \A i \in range : fd[i + 1] = NegInfinity
       THEN p = 0
       ELSE /\ p \in range
            /\ \A j \in range :
                 fd[j + 1] < fd[p + 1] \/ (fd[j + 1] = fd[p + 1] /\ p <= j)

\* The largest value of the low bins is in bin N/4, beyond the loop's range.
C18_Witness ==
  /\ animationRef = "pending"
  /\ audioFeatures.frequency[(Len(audioFeatures.frequency) \div 4) + 1] = 20
  /\ \A i \in 1 .. (Len(audioFeatures.frequency) \div 4) - 1 :
       audioFeatures.frequency[i + 1] = 0
  /\ audioFeatures.pitch = 1

\* C19: the parameters both presets map audio features to are in range:
\* 0 <= hue shift < 360, saturation and brightness gains above 0, noise
\* amplitude in [0, 1].
C19_ParametersInRange ==
  \A r \in {transformedImage, realtime.output} :
    r.kind \in {"local", "realtime"} =>
      /\ FracLeq(Frac(0, 1), r.options.hueShift)
      /\ FracLess(r.options.hueShift, Frac(360, 1))
      /\ FracLess(Frac(0, 1), r.options.saturation)
      /\ FracLess(Frac(0, 1), r.options.brightness)
      /\ FracLeq(Frac(0, 1), r.options.noise)
      /\ FracLeq(r.options.noise, Frac(1, 1))

\* Both presets have mapped features whose centroid is 1 and whose volume
\* is 1.
C19_Witness ==
  /\ transformedImage.kind = "local"
  /\ realtime.output.kind = "realtime"
  /\ FracEq(audioFeatures.centroid, Frac(1, 1))
  /\ FracEq(audioFeatures.volume, Frac(1, 1))
  /\ calls = <<>>

\* C20: a pixel converted from RGB to HSL and back with hue shift 0, gains 1
\* and no noise has each channel within 1 of the original (1/255 of the
\* range).
C20_RoundTripWithinOne ==
  imageData.converted =>
    \A k \in 1 .. 3 :
      /\ imageData.data[k] - imageData.original[k] <= 1
      /\ imageData.original[k] - imageData.data[k] <= 1

\* Pure red has made the round trip.
C20_Witness ==
  /\ imageData.converted
  /\ imageData.original = <<255, 0, 0>>
  /\ imageData.data = <<255, 0, 0>>

\* C21: two runs of the colour transform by the same implementation on the
\* same pixel at the same place, with the same features and the same seed,
\* produce the same output.
C21_SameInputsSameOutput ==
  \A i, j \in 1 .. Len(renders) :
    (/\ renders[i].engine = renders[j].engine
     /\ renders[i].image = renders[j].image
     /\ renders[i].co = renders[j].co
     /\ renders[i].features = renders[j].features
     /\ renders[i].seed = renders[j].seed)
    => renders[i].data = renders[j].data

\* The value of pixel (x, y) of the mask.
MaskAt(x, y) == Painted(mask.ops, Len(mask.ops), x, y)

\* C22: a mask made in mode 'psychedelic' is 1.0 (white) at every pixel,
\* whatever the audio features and the dimensions.
C22_FullMaskIsWhite ==
  (mask.made /\ mask.mode = "psychedelic") =>
    \A x \in Probes(mask.width), y \in Probes(mask.height) :
      MaskAt(x, y) = Whole(1)

\* Full masks of the server for a 512 x 256 image and of the browser.
C22_Witness ==
  /\ mask.made
  /\ mask.mode = "psychedelic"
  /\ mask.site = "server"
  /\ mask.width = 512
  /\ mask.height = 256
  /\ mask.features.volume = Whole(0)
  /\ MaskAt(511, 255) = Whole(1)

\* C23: a mask made in mode 'minimal' is 1.0 on every pixel inside one of
\* the four corner squares of side min(width, height) * volume * 0.3 and
\* 0.0 on every pixel outside all of them; with volume 1 on 512 x 512 the
\* pixel (0, 0) is 1.0 and the centre (256, 256) is 0.0.
C23_CornersMask ==
  (mask.made /\ mask.mode = "minimal") =>
    LET side == FracMul(FracMul(Whole(Min2(mask.width, mask.height)),
                                mask.features.volume), Frac(3, 10))
        square(left, top) == FillRect(left, top, side, side, 1)
        squares == <<square(Whole(0), Whole(0)),
                     square(FracSub(Whole(mask.width), side), Whole(0)),
                     square(Whole(0), FracSub(Whole(mask.height), side)),
                     square(FracSub(Whole(mask.width), side),
                            FracSub(Whole(mask.height), side))>>
    IN \A x \in Probes(mask.width), y \in Probes(mask.height) :
         /\ (\E k \in 1 .. 4 : Coverage(squares[k], x, y) = Whole(1))
              => MaskAt(x, y) = Whole(1)
         /\ (\A k \in 1 .. 4 : Coverage(squares[k], x, y) = Whole(0))
              => MaskAt(x, y) = Whole(0)

\* C25: generateAudioPrompt returns the base prompt whatever the features
\* and the mode it is given.
C25_BasePromptOnly ==
  (request.received /\ request.image /\ request.field = "json") =>
    request.basicPrompt = "Digital art style, high quality, artistic variation"

\* The call of the test: volume 0.5 in mode 'minimal'; and a loud one.
C25_Witness ==
  /\ request.received
  /\ request.stage = "sharp"
  /\ request.mode = "minimal"
  /\ request.audioFeatures.volume = Frac(1, 2)
  /\ request.basicPrompt = "Digital art style, high quality, artistic variation"

\* C30: a request gets exactly one response, and none before the handler
\* is through: 400 without an image or without the audioFeatures field, no
\* call of the generation service having been made; 500 when a later step
\* throws, as with unparsable audioFeatures or no OpenAI client; otherwise
\* 200 with success = true, which carries the generated image as it is
\* when only the post-processing failed.  Until the response a step of the
\* handler is still to come.
C30_ExactlyOneResponse ==
  request.received =>
    /\ Len(request.responses) = (IF request.stage = "done" THEN 1 ELSE 0)
    /\ request.stage # "done" => ENABLED ServerNext
    /\ request.stage = "done" =>
         LET response == request.responses[1]
             invalid == ~request.image \/ request.field = "missing"
         IN /\ response.status \in {200, 400, 500}
            /\ response.status = 400 <=> invalid
            /\ invalid => request.serviceCalls = 0
            /\ (~invalid /\ (request.field = "unparsable" \/ ~request.openai))
                 => response.status = 500
            /\ response.status = 200 =>
                 /\ response.body.success
                 /\ request.serviceCalls = 2
                 /\ response.body.imageData = request.processed
            /\ request.processed = "generated" =>
                 /\ response.status = 200
                 /\ response.body.imageData = "generated"

\* The post-processing alone has failed and the generated image was sent.
C30_Witness ==
  /\ request.received
  /\ request.stage = "done"
  /\ request.processed = "generated"
  /\ Len(request.responses) = 1
  /\ request.responses[1].status = 200

\* C26: in live mode, with audio listening and an image uploaded, once a
\* transform has completed and the 8 seconds have passed another transform
\* is started, whatever the audio is.
C26_TransformsKeepOccurring ==
  (/\ isRealtimeActive /\ isListening /\ uploadedImage # NoImage
   /\ ~isTransforming
   /\ lastSettledAt # NoTime
   /\ nCalls < MaxCalls
   /\ now - lastTransformRef > Cooldown)
  ~> (\/ lastSettledAt = NoTime
      \/ ~(isRealtimeActive /\ isListening /\ uploadedImage # NoImage))

\* C27: at most one analysis loop of the analyzer is scheduled at any time,
\* also when startListening is invoked again before a stop or before an
\* earlier invocation has finished.
C27_AtMostOneLoop == loops <= 1

\* C28: the displayed transformed image is empty or was made from the image
\* that is uploaded now: a transform started for an earlier image and
\* settling after the upload does not set it.
C28_ResultOfCurrentImage ==
  transformedImage # NoImage => transformedImage.src = uploadedImage.src

\* C29: after stopRealtimeTransform, and until startRealtimeTransform is
\* called again (the frame id of the transformer is null), no frame of a
\* transform loop runs: onUpdate is not called, no frame is requested.
C29_NoFrameAfterStop ==
  [][realtime.animationFrame = "null" => ~TransformFrame]_vars

====
